---- MODULE Spec2Model ----
(***************************************************************************)
(* Model of main.go: an HTTP client facade (CustomClient) over a chain of  *)
(* authentication middlewares wrapping a base transport (HTTPClient).      *)
(*                                                                         *)
(* Go strings and byte slices are sequences of byte values (0..255).       *)
(* A nil byte slice / nil pointer is the empty option <<>>, a non-nil one  *)
(* is <<v>>.  An error is the sequence of its message segments, outermost  *)
(* first: fmt.Errorf("ctx: %w", e) prepends a segment, errors.Unwrap drops *)
(* it; the nil error is <<>>.                                              *)
(***************************************************************************)
EXTENDS Integers, Sequences, FiniteSets, TLC

VARIABLES
    middlewares,  \* the list handed to NewCustomClient
    base,         \* the base transport handed to NewCustomClient
    httpClient,   \* CustomClient.httpClient: the wrapping layers, outermost first
    pc,           \* position of the Get call
    ctx,          \* Get's ctx argument
    url,          \* Get's url argument
    req,          \* the *http.Request travelling down the chain
    depth,        \* the layer of httpClient whose Do is running (0: Get itself)
    ret,          \* (resp, err) travelling back up the chain
    buf,          \* io.ReadAll's buffer
    pos,          \* read position of resp.Body
    closed,       \* number of resp.Body.Close() calls Get has made
    result,       \* what Get returns: [body, err]
    order,        \* ghost: the layers that ran and delegated in this call, and
                  \* the base (list position; 0 = base)
    built,        \* ghost: the request as NewRequestWithContext built it
    baseSaw,      \* ghost: the request the base transport was handed
    baseRet,      \* ghost: what the base transport returned
    reads         \* ghost: number of Read calls on resp.Body

vars == <<middlewares, base, httpClient, pc, ctx, url, req, depth, ret, buf,
          pos, closed, result, order, built, baseSaw, baseRet, reads>>

----------------------------------------------------------------------------
(* Bounds of the model *)

\* longest middleware list handed to NewCustomClient
MaxMiddlewares == 2
\* longest username, password or API key of the middleware under test
MaxCredLen == 2
\* most bytes one Read call on the body returns
MaxChunk == 2

----------------------------------------------------------------------------
(* Strings *)

\* bytes used in credentials: 'a', ':', '~'
CredBytes == {97, 58, 126}

Strs(S, n) == UNION {[1..k -> S] : k \in 0..n}

\* "Basic "
BasicPrefix == <<66, 97, 115, 105, 99, 32>>
\* "Bearer "
BearerPrefix == <<66, 101, 97, 114, 101, 114, 32>>
\* ":"
ColonStr == <<58>>
\* "hello", "hi"
HelloStr == <<104, 101, 108, 108, 111>>
HiStr == <<104, 105>>

Nil == <<>>
Some(v) == <<v>>
NoError == <<>>

\* fmt.Errorf(stage + ": %w", err)
Errorf(stage, err) == <<stage>> \o err
\* strings.Contains(err.Error(), s), for a whole segment s
ErrorContains(err, s) == \E i \in 1..Len(err) : err[i] = s
\* errors.Unwrap
Unwrap(err) == Tail(err)

----------------------------------------------------------------------------
(* encoding/base64 StdEncoding, as req.SetBasicAuth uses it *)

\* the alphabet A-Z a-z 0-9 + /
Base64Char(i) ==
    IF i < 26 THEN 65 + i
    ELSE IF i < 52 THEN 97 + (i - 26)
    ELSE IF i < 62 THEN 48 + (i - 52)
    ELSE IF i = 62 THEN 43 ELSE 47

RECURSIVE EncodeToString(_)
EncodeToString(src) ==
    IF Len(src) = 0 THEN <<>>
    ELSE IF Len(src) >= 3 THEN
        LET val == src[1] * 65536 + src[2] * 256 + src[3]
        IN  << Base64Char(val \div 262144), Base64Char((val \div 4096) % 64),
               Base64Char((val \div 64) % 64), Base64Char(val % 64) >>
            \o EncodeToString(SubSeq(src, 4, Len(src)))
    ELSE IF Len(src) = 2 THEN
        LET val == src[1] * 65536 + src[2] * 256
        IN  << Base64Char(val \div 262144), Base64Char((val \div 4096) % 64),
               Base64Char((val \div 64) % 64), 61 >>
    ELSE
        LET val == src[1] * 65536
        IN  << Base64Char(val \div 262144), Base64Char((val \div 4096) % 64),
               61, 61 >>

\* net/http Header: every header name to its list of values
HeaderNames == {"Authorization", "Accept"}
EmptyHeader == [n \in HeaderNames |-> <<>>]

\* Header.Add: appends a value
HeaderAdd(h, key, value) == [h EXCEPT ![key] = Append(@, value)]
\* Header.Set: replaces whatever values the key had by the one value
HeaderSet(h, key, value) == [h EXCEPT ![key] = <<value>>]

\* net/http basicAuth(username, password)
basicAuthNoColon(username, password) == EncodeToString(username \o password)
basicAuth(username, password) ==
    EncodeToString(username \o ColonStr \o password)

\* r.SetBasicAuth(username, password), line 30
SetBasicAuth(r, username, password) ==
    [r EXCEPT !.header =
        HeaderSet(@, "Authorization", BasicPrefix \o basicAuth(username, password))]

\* req.Header.Set("Authorization", "Bearer "+apiKey), line 40
SetBearerAdd(r, apiKey) ==
    [r EXCEPT !.header = HeaderAdd(@, "Authorization", BearerPrefix \o apiKey)]
SetBearer(r, apiKey) ==
    [r EXCEPT !.header = HeaderSet(@, "Authorization", BearerPrefix \o apiKey)]

----------------------------------------------------------------------------
(* Middlewares: a Middleware value is the closure's captured configuration *)

BasicAuthMiddleware(username, password) ==
    [kind |-> "BasicAuth", username |-> username, password |-> password,
     apiKey |-> <<>>]

APIKeyAuthMiddleware(apiKey) ==
    [kind |-> "APIKeyAuth", username |-> <<>>, password |-> <<>>,
     apiKey |-> apiKey]

\* what the wrapping HTTPClientFunc does to req before client.Do(req)
MiddlewareRequest(mw, r) ==
    IF mw.kind = "BasicAuth"
    THEN SetBasicAuth(r, mw.username, mw.password)
    ELSE SetBearer(r, mw.apiKey)

\* Header.Set on a nil Header map (lines 30 and 40) panics: assignment to
\* entry in nil map
HeaderSetPanics(r) == r.headerNil

\* what the wrapping HTTPClientFunc returns: `return client.Do(req)`
MiddlewareReturn(mw, inner) == inner

\* baseClient = middleware(baseClient): the new layer becomes the outermost
WrapInnermost(client, mw, i) == Append(client, [mw |-> mw, pos |-> i])
Wrap(client, mw, i) == <<[mw |-> mw, pos |-> i]>> \o client

\* for _, middleware := range middlewares, lines 54-56
RECURSIVE ApplyMiddlewaresReversed(_, _, _)
ApplyMiddlewaresReversed(client, mws, i) ==
    IF i > Len(mws) THEN client
    ELSE ApplyMiddlewaresReversed(
            Wrap(client, mws[Len(mws) + 1 - i], Len(mws) + 1 - i), mws, i + 1)

RECURSIVE ApplyMiddlewares(_, _, _)
ApplyMiddlewares(client, mws, i) ==
    IF i > Len(mws) THEN client
    ELSE ApplyMiddlewares(Wrap(client, mws[i], i), mws, i + 1)

\* the layers around baseClient, outermost first (pos: place in the list)
NewCustomClientDefaultAuth(mws) ==
    ApplyMiddlewares(<<>>, <<APIKeyAuthMiddleware(<<97>>)>> \o mws, 1)
NewCustomClient(mws) == ApplyMiddlewares(<<>>, mws, 1)

----------------------------------------------------------------------------
(* Requests, responses, the base transport *)

\* headerNil: the request's Header map is nil (reads as empty, cannot be
\* assigned to)
NoRequest ==
    [method |-> "", url |-> "", header |-> EmptyHeader, headerNil |-> FALSE,
     body |-> Nil, ctx |-> ""]

URLs == {"http://a.test/x", "https://b.test", ":bad", "http://a b.test"}
\* url.Parse succeeds
ParseURLOK(u) == u \in {"http://a.test/x", "https://b.test"}

Contexts == {"nil", "background", "canceled"}

\* http.NewRequestWithContext(ctx, method, url, nil), line 63
NewRequestNoContext(c, method, u, body) ==
    IF c = "nil" THEN [req |-> NoRequest, err |-> <<"net/http: nil Context">>]
    ELSE IF ~ParseURLOK(u) THEN [req |-> NoRequest, err |-> <<"parse", u>>]
    ELSE [req |-> [method |-> method, url |-> u, header |-> EmptyHeader,
                   headerNil |-> FALSE,
                   body |-> body, ctx |-> "background"],
          err |-> NoError]
NewRequestWithContext(c, method, u, body) ==
    IF c = "nil" THEN [req |-> NoRequest, err |-> <<"net/http: nil Context">>]
    ELSE IF ~ParseURLOK(u) THEN [req |-> NoRequest, err |-> <<"parse", u>>]
    ELSE [req |-> [method |-> method, url |-> u, header |-> EmptyHeader,
                   headerNil |-> FALSE,
                   body |-> body, ctx |-> c],
          err |-> NoError]

\* a response: its Body is nil (nilBody, a response made as a struct literal
\* by a hand-written HTTPClient) or a stream that delivers data, or only its
\* first failAt bytes and then a read error (failAt = -1: no failure)
Bodies == {<<>>, HiStr, HelloStr}
Responses ==
    UNION {{[status |-> s, data |-> d, failAt |-> f, nilBody |-> FALSE,
             bodyClosed |-> FALSE] :
                s \in {200, 404}, f \in -1..Len(d)} : d \in Bodies}
    \cup {[status |-> 200, data |-> <<>>, failAt |-> -1, nilBody |-> TRUE,
           bodyClosed |-> FALSE]}

\* a response that comes together with an error: http.Client returns one on
\* a failed redirect check, its Body already closed (bodyClosed); another
\* implementer of the interface may leave the Body open
ErrResponses ==
    {[status |-> 302, data |-> HiStr, failAt |-> -1, nilBody |-> FALSE,
      bodyClosed |-> c] : c \in BOOLEAN}

TransportErrors == {<<"connection refused">>, <<"tls", "handshake failure">>}

NoReturn == [resp |-> Nil, err |-> NoError]

\* what an HTTPClient may answer: the interface of lines 11-13 allows every
\* pair of a response (or nil) and an error (or nil); one that honours the
\* request's context answers a canceled one with an error
BaseOutcomes(b, r) ==
    IF b.honoursCtx /\ r.ctx = "canceled"
    THEN {[resp |-> Nil, err |-> <<"context canceled">>]} \cup
         {[resp |-> Some(x), err |-> <<"context canceled">>] : x \in ErrResponses}
    ELSE {[resp |-> Some(x), err |-> NoError] : x \in Responses} \cup
         {[resp |-> Nil, err |-> e] : e \in TransportErrors} \cup
         {[resp |-> Some(x), err |-> e] : x \in ErrResponses, e \in TransportErrors} \cup
         {[resp |-> Nil, err |-> NoError]}

\* bytes the stream delivers before EOF or its error
Limit(b) == IF b.failAt >= 0 THEN b.failAt ELSE Len(b.data)
\* the error of the Read after the last byte; io.ReadAll turns io.EOF into nil
ReadAllErr(b) == IF b.failAt >= 0 THEN <<"unexpected EOF">> ELSE NoError

Min(a, b) == IF a < b THEN a ELSE b

----------------------------------------------------------------------------
(* CustomClient.Get, lines 61-82 *)

NoResult == [body |-> Nil, err |-> NoError]

\* line 64: if err != nil
GetBuildFailedIgnored(err) == FALSE
GetBuildFailed(err) == err # NoError

\* line 65
GetBuildResult(err) == [body |-> Nil, err |-> Errorf("failed to create request", err)]

\* lines 70-72
GetSendResultRaw(err) == [body |-> Nil, err |-> err]
GetSendResult(err) == [body |-> Nil, err |-> Errorf("request failed", err)]

\* lines 76-81
GetReadResultPartial(b, err) ==
    IF err # NoError
    THEN [body |-> Some(b), err |-> Errorf("failed to read response body", err)]
    ELSE [body |-> Some(b), err |-> NoError]
GetReadResult(b, err) ==
    IF err # NoError
    THEN [body |-> Nil, err |-> Errorf("failed to read response body", err)]
    ELSE [body |-> Some(b), err |-> NoError]

\* line 70: if err != nil (whether or not a response came with it)
GetSendFailed(answer) == answer.err # NoError

\* line 73: resp.Body.Close of a nil resp or a nil Body panics
DeferPanics(answer) ==
    answer.resp = Nil \/ answer.resp[1].nilBody

\* line 73: the deferred resp.Body.Close() runs on every exit after it
AfterReadAllNoDefer(err) == IF err # NoError THEN "done" ELSE "close"
AfterReadAll(err) == "close"

----------------------------------------------------------------------------
(* The state machine *)

\* the middlewares a client is composed of
ChainMiddlewares ==
    { BasicAuthMiddleware(<<97>>, <<97>>),
      BasicAuthMiddleware(<<97, 58>>, <<126>>),
      APIKeyAuthMiddleware(<<97>>),
      APIKeyAuthMiddleware(<<126, 126>>) }

BaseClients == [honoursCtx : BOOLEAN]

\* the state of a Get call that has not started
Idle ==
    /\ pc = "idle"
    /\ ctx = ""
    /\ url = ""
    /\ req = NoRequest
    /\ depth = 0
    /\ ret = NoReturn
    /\ buf = <<>>
    /\ pos = 0
    /\ closed = 0
    /\ result = NoResult
    /\ order = <<>>
    /\ built = NoRequest
    /\ baseSaw = NoRequest
    /\ baseRet = NoReturn
    /\ reads = 0

\* client := NewCustomClient(baseClient, middlewares...)
Init ==
    /\ middlewares \in Strs(ChainMiddlewares, MaxMiddlewares)
    /\ base \in BaseClients
    /\ httpClient = NewCustomClient(middlewares)
    /\ Idle

\* Get, lines 61-66: build the request; a construction error ends the call
GetNewRequest ==
    /\ pc = "idle"
    /\ \E c \in Contexts, u \in URLs :
        LET r == NewRequestWithContext(c, "GET", u, Nil) IN
        /\ ctx' = c
        /\ url' = u
        /\ IF GetBuildFailed(r.err)
           THEN /\ result' = GetBuildResult(r.err)
                /\ pc' = "done"
                /\ UNCHANGED <<req, built, depth>>
           ELSE /\ req' = r.req
                /\ built' = r.req
                /\ depth' = 1
                /\ pc' = "send"
                /\ UNCHANGED result
    /\ UNCHANGED <<middlewares, base, httpClient, ret, buf, pos, closed, order,
                   baseSaw, baseRet, reads>>

\* a middleware's HTTPClientFunc, lines 29-31 and 39-41: mutate req, then
\* call the wrapped client's Do
HTTPClientFuncDo ==
    /\ pc = "send"
    /\ depth <= Len(httpClient)
    /\ IF HeaderSetPanics(req)
       THEN /\ pc' = "panic"
            /\ UNCHANGED <<req, order, depth>>
       ELSE /\ req' = MiddlewareRequest(httpClient[depth].mw, req)
            /\ order' = Append(order, httpClient[depth].pos)
            /\ depth' = depth + 1
            /\ UNCHANGED pc
    /\ UNCHANGED <<middlewares, base, httpClient, ctx, url, ret, buf, pos,
                   closed, result, built, baseSaw, baseRet, reads>>

\* the base transport's Do: it answers with a response or an error
BaseClientDo ==
    /\ pc = "send"
    /\ depth = Len(httpClient) + 1
    /\ \E out \in BaseOutcomes(base, req) :
        /\ ret' = out
        /\ baseRet' = out
    /\ baseSaw' = req
    /\ order' = Append(order, 0)
    /\ depth' = Len(httpClient)
    /\ pc' = "unwind"
    /\ UNCHANGED <<middlewares, base, httpClient, ctx, url, req, buf, pos,
                   closed, result, built, reads>>

\* a middleware's HTTPClientFunc returns what client.Do(req) returned
HTTPClientFuncReturn ==
    /\ pc = "unwind"
    /\ depth >= 1
    /\ ret' = MiddlewareReturn(httpClient[depth].mw, ret)
    /\ depth' = depth - 1
    /\ UNCHANGED <<middlewares, base, httpClient, pc, ctx, url, req, buf, pos,
                   closed, result, order, built, baseSaw, baseRet, reads>>

\* Get, lines 69-73: a transport error ends the call, leaving any response
\* that came with it alone; without an error a nil response or nil Body
\* panics at the defer and Get returns nothing; otherwise the body's Close
\* is deferred and the body is read
GetCheckErr ==
    /\ pc = "unwind"
    /\ depth = 0
    /\ IF GetSendFailed(ret)
       THEN /\ result' = GetSendResult(ret.err)
            /\ pc' = "done"
       ELSE IF DeferPanics(ret)
       THEN /\ pc' = "panic"
            /\ UNCHANGED result
       ELSE /\ pc' = "read"
            /\ UNCHANGED result
    /\ UNCHANGED <<middlewares, base, httpClient, ctx, url, req, depth, ret,
                   buf, pos, closed, order, built, baseSaw, baseRet, reads>>

\* io.ReadAll, line 76: one Read call that delivers bytes
BodyRead ==
    /\ pc = "read"
    /\ LET b == ret.resp[1] IN
        /\ pos < Limit(b)
        /\ \E n \in 1..Min(MaxChunk, Limit(b) - pos) :
            /\ buf' = buf \o SubSeq(b.data, pos + 1, pos + n)
            /\ pos' = pos + n
    /\ reads' = reads + 1
    /\ UNCHANGED <<middlewares, base, httpClient, pc, ctx, url, req, depth,
                   ret, closed, result, order, built, baseSaw, baseRet>>

\* io.ReadAll's last Read (io.EOF or the stream's error) and lines 77-81
ReadAllReturn ==
    /\ pc = "read"
    /\ LET b == ret.resp[1] IN
        /\ pos = Limit(b)
        /\ result' = GetReadResult(buf, ReadAllErr(b))
        /\ pc' = AfterReadAll(ReadAllErr(b))
    /\ reads' = reads + 1
    /\ UNCHANGED <<middlewares, base, httpClient, ctx, url, req, depth, ret,
                   buf, pos, closed, order, built, baseSaw, baseRet>>

\* the deferred resp.Body.Close(), line 73, run as Get exits
BodyClose ==
    /\ pc = "close"
    /\ closed' = closed + 1
    /\ pc' = "done"
    /\ UNCHANGED <<middlewares, base, httpClient, ctx, url, req, depth, ret,
                   buf, pos, result, order, built, baseSaw, baseRet, reads>>

\* Get has returned; the client is ready for the next, independent call
GetReturn ==
    /\ pc = "done"
    /\ pc' = "idle"
    /\ ctx' = ""
    /\ url' = ""
    /\ req' = NoRequest
    /\ depth' = 0
    /\ ret' = NoReturn
    /\ buf' = <<>>
    /\ pos' = 0
    /\ closed' = 0
    /\ result' = NoResult
    /\ order' = <<>>
    /\ built' = NoRequest
    /\ baseSaw' = NoRequest
    /\ baseRet' = NoReturn
    /\ reads' = 0
    /\ UNCHANGED <<middlewares, base, httpClient>>

Next ==
    \/ GetNewRequest
    \/ HTTPClientFuncDo
    \/ BaseClientDo
    \/ HTTPClientFuncReturn
    \/ GetCheckErr
    \/ BodyRead
    \/ ReadAllReturn
    \/ BodyClose
    \/ GetReturn

Spec == Init /\ [][Next]_vars

----------------------------------------------------------------------------
(* One middleware called directly: client := mw(base); client.Do(req) for a
   request the caller made, which may already carry headers and a body *)

\* every middleware with credentials of at most MaxCredLen bytes
TestMiddlewares ==
    {BasicAuthMiddleware(u, p) :
        u \in Strs(CredBytes, MaxCredLen), p \in Strs(CredBytes, MaxCredLen)}
    \cup {APIKeyAuthMiddleware(k) : k \in Strs(CredBytes, MaxCredLen)}

\* "Bearer a", "Basic YTph", "*/*"
PriorAuthorization ==
    { <<>>,
      << <<66, 101, 97, 114, 101, 114, 32, 97>> >>,
      << <<66, 97, 115, 105, 99, 32, 89, 84, 112, 104>>,
         <<66, 101, 97, 114, 101, 114, 32, 97>> >> }

\* the requests a middleware's Do may be handed: with an allocated Header
\* map, as Get builds them at line 63, or made as a struct literal, whose
\* Header map is nil
InputRequests ==
    [method : {"GET", "POST"},
     url    : {"http://a.test/x"},
     header : [Authorization : PriorAuthorization, Accept : {<< <<42, 47, 42>> >>}],
     headerNil : {FALSE},
     body   : {Nil, Some(HiStr)},
     ctx    : {"background"}]
    \cup
    [method : {"GET", "POST"},
     url    : {"http://a.test/x"},
     header : {EmptyHeader},
     headerNil : {TRUE},
     body   : {Nil, Some(HiStr)},
     ctx    : {"background"}]

InitMW ==
    /\ \E mw \in TestMiddlewares : middlewares = <<mw>>
    /\ base = [honoursCtx |-> TRUE]
    /\ httpClient = NewCustomClient(middlewares)
    /\ pc = "send"
    /\ req \in InputRequests
    /\ built = req
    /\ ctx = req.ctx
    /\ url = req.url
    /\ depth = 1
    /\ ret = NoReturn
    /\ buf = <<>>
    /\ pos = 0
    /\ closed = 0
    /\ result = NoResult
    /\ order = <<>>
    /\ baseSaw = NoRequest
    /\ baseRet = NoReturn
    /\ reads = 0

NextMW ==
    \/ HTTPClientFuncDo
    \/ BaseClientDo
    \/ HTTPClientFuncReturn

SpecMW == InitMW /\ [][NextMW]_vars

----------------------------------------------------------------------------
(* Decoding a basic-auth header: net/http's Request.BasicAuth, the inverse
   that the properties below check the encoding against *)

\* the place of a character in the alphabet A-Z a-z 0-9 + /, or -1
Base64Index(c) ==
    IF c >= 65 /\ c <= 90 THEN c - 65
    ELSE IF c >= 97 /\ c <= 122 THEN c - 71
    ELSE IF c >= 48 /\ c <= 57 THEN c + 4
    ELSE IF c = 43 THEN 62
    ELSE IF c = 47 THEN 63
    ELSE -1

DecodeFail == [ok |-> FALSE, bytes |-> <<>>]

RECURSIVE DecodeString(_)
DecodeString(s) ==
    IF Len(s) = 0 THEN [ok |-> TRUE, bytes |-> <<>>]
    ELSE IF Len(s) < 4 THEN DecodeFail
    ELSE
        LET i1 == Base64Index(s[1])
            i2 == Base64Index(s[2])
            i3 == Base64Index(s[3])
            i4 == Base64Index(s[4])
            val == i1 * 262144 + i2 * 4096
                   + (IF i3 < 0 THEN 0 ELSE i3 * 64) + (IF i4 < 0 THEN 0 ELSE i4)
        IN  IF i1 < 0 \/ i2 < 0 THEN DecodeFail
            ELSE IF s[3] = 61 THEN
                IF s[4] = 61 /\ Len(s) = 4
                THEN [ok |-> TRUE, bytes |-> <<val \div 65536>>]
                ELSE DecodeFail
            ELSE IF i3 < 0 THEN DecodeFail
            ELSE IF s[4] = 61 THEN
                IF Len(s) = 4
                THEN [ok |-> TRUE,
                      bytes |-> <<val \div 65536, (val \div 256) % 256>>]
                ELSE DecodeFail
            ELSE IF i4 < 0 THEN DecodeFail
            ELSE
                LET r == DecodeString(SubSeq(s, 5, Len(s)))
                IN  IF r.ok
                    THEN [ok |-> TRUE,
                          bytes |-> <<val \div 65536, (val \div 256) % 256,
                                      val % 256>> \o r.bytes]
                    ELSE DecodeFail

\* ASCII lower case, for the case-insensitive match of the scheme
Lower(c) == IF c >= 65 /\ c <= 90 THEN c + 32 ELSE c
EqualFold(a, b) ==
    /\ Len(a) = Len(b)
    /\ \A i \in 1..Len(a) : Lower(a[i]) = Lower(b[i])

HasColon(str) == \E i \in 1..Len(str) : str[i] = 58

ParseFail == [ok |-> FALSE, username |-> <<>>, password |-> <<>>]

\* parseBasicAuth: "Basic " + base64, split at the first colon
ParseBasicAuth(auth) ==
    IF Len(auth) < Len(BasicPrefix)
       \/ ~EqualFold(SubSeq(auth, 1, Len(BasicPrefix)), BasicPrefix)
    THEN ParseFail
    ELSE
        LET c == DecodeString(SubSeq(auth, Len(BasicPrefix) + 1, Len(auth)))
        IN  IF ~c.ok \/ ~HasColon(c.bytes) THEN ParseFail
            ELSE
                LET k == CHOOSE i \in 1..Len(c.bytes) :
                            /\ c.bytes[i] = 58
                            /\ \A j \in 1..(i - 1) : c.bytes[j] # 58
                IN  [ok |-> TRUE,
                     username |-> SubSeq(c.bytes, 1, k - 1),
                     password |-> SubSeq(c.bytes, k + 1, Len(c.bytes))]

----------------------------------------------------------------------------
(* Properties *)

\* the base transport has been invoked in the current call
BaseInvoked ==
    pc \in {"unwind", "read", "close", "panic"} \/ (pc = "done" /\ order # <<>>)

\* the layers of a list of n middlewares in the order mN, ..., m1, base
ExpectedOrder(n) == [i \in 1..(n + 1) |-> IF i <= n THEN n + 1 - i ELSE 0]

\* the Authorization values a middleware sets on a request without any
Sets(mw) == MiddlewareRequest(mw, NoRequest).header["Authorization"]

\* the middleware called directly under SpecMW
MwUnderTest == middlewares[1]

\* C1: NewCustomClient folds left, so the composed transport is
\* mN(...(m1(base))): on every Get the layers run in the order mN, ..., m1
\* and the base transport is invoked only after all of them.
C1_OuterFirst ==
    LET n == Len(middlewares) IN
    /\ Len(httpClient) = n
    /\ \A k \in 1..n :
        httpClient[k] = [mw |-> middlewares[n + 1 - k], pos |-> n + 1 - k]
    /\ Len(order) <= n + 1
    /\ order = SubSeq(ExpectedOrder(n), 1, Len(order))
    /\ (BaseInvoked => order = ExpectedOrder(n))

C1_Witness ==
    /\ pc = "unwind"
    /\ Len(middlewares) = 2
    /\ middlewares[1] # middlewares[2]
    /\ order = <<2, 1, 0>>

\* C2 as claimed: when several middlewares set Authorization, the request
\* that reaches the base transport carries the last-listed one's value.
C2_LaterListedWins ==
    (BaseInvoked /\ Len(middlewares) >= 2)
        => baseSaw.header["Authorization"] = Sets(middlewares[Len(middlewares)])

\* C2 amended: the first-listed middleware runs last and overrides the
\* later-listed ones; the request that reaches the base transport carries
\* the first-listed middleware's value.
C2_FirstListedWins ==
    (BaseInvoked /\ Len(middlewares) >= 1)
        => baseSaw.header["Authorization"] = Sets(middlewares[1])

C2_Witness ==
    /\ BaseInvoked
    /\ Len(middlewares) = 2
    /\ middlewares[1].kind = "BasicAuth"
    /\ middlewares[2].kind = "APIKeyAuth"
    /\ baseSaw.header["Authorization"] = Sets(middlewares[1])
    /\ baseSaw.header["Authorization"] # Sets(middlewares[2])

\* an answer without error that carries no response or no Body
Unreadable(answer) ==
    /\ answer.err = NoError
    /\ (answer.resp = Nil \/ answer.resp[1].nilBody)

\* what Get returns for an answer of the transport that lets it return
OutcomeOf(answer) ==
    IF answer.err # NoError
    THEN [body |-> Nil, err |-> <<"request failed">> \o answer.err]
    ELSE IF answer.resp[1].failAt >= 0
    THEN [body |-> Nil, err |-> <<"failed to read response body", "unexpected EOF">>]
    ELSE [body |-> Some(answer.resp[1].data), err |-> NoError]

\* C3: with zero middlewares the base transport is handed the request
\* exactly as Get constructed it (GET, the url, no header, no body, the
\* ctx), and Get's outcome is the one the base transport's answer decides:
\* its result, or a panic when the answer has neither error nor body.
C3_ZeroMiddlewares ==
    (Len(middlewares) = 0) =>
        /\ httpClient = <<>>
        /\ (BaseInvoked =>
                /\ baseSaw = built
                /\ baseSaw = [method |-> "GET", url |-> url,
                              header |-> EmptyHeader, headerNil |-> FALSE,
                              body |-> Nil, ctx |-> ctx]
                /\ order = <<0>>)
        /\ (pc = "done" /\ BaseInvoked =>
                /\ ~Unreadable(baseRet)
                /\ result = OutcomeOf(baseRet))
        /\ (pc = "panic" => Unreadable(baseRet) /\ result = NoResult)

C3_Witness ==
    /\ Len(middlewares) = 0
    /\ pc = "done"
    /\ baseRet.resp # Nil
    /\ baseSaw.url = "https://b.test"
    /\ result = [body |-> Some(HelloStr), err |-> NoError]

\* C4: when the composed transport returns an error (with or without a
\* response), Get returns nil bytes and an error "request failed" wrapping
\* the transport's error, the body is neither read nor closed, and every
\* middleware hands the inner transport's answer back unchanged.
C4_RequestFailed ==
    /\ (pc \in {"unwind", "read", "close", "panic"} => ret = baseRet)
    /\ (pc \in {"read", "close", "panic"} => ret.err = NoError)
    /\ (pc = "done" /\ ret.err # NoError =>
            /\ ret = baseRet
            /\ result.body = Nil
            /\ result.err # NoError
            /\ ErrorContains(result.err, "request failed")
            /\ Unwrap(result.err) = baseRet.err
            /\ reads = 0
            /\ closed = 0)

C4_Witness ==
    /\ pc = "done"
    /\ Len(middlewares) = 2
    /\ baseRet.resp # Nil
    /\ baseRet.err = <<"tls", "handshake failure">>
    /\ result = [body |-> Nil,
                 err |-> <<"request failed", "tls", "handshake failure">>]

\* the answer is one the specified transport gives, send(Request) ->
\* Response | Error: a response with a readable body stream and no error, or
\* an error and no response
ResponseOrError(answer) ==
    \/ /\ answer.err = NoError
       /\ answer.resp # Nil
       /\ ~answer.resp[1].nilBody
       /\ ~answer.resp[1].bodyClosed
    \/ /\ answer.err # NoError
       /\ answer.resp = Nil

\* the answer is a response, not an error
IsResponse(answer) == ResponseOrError(answer) /\ answer.err = NoError

\* C5: when the composed transport returns a response, Get returns and has
\* closed the body stream exactly once before it does, after a complete
\* read and after a read that failed part-way alike, and never before the
\* read has ended.  The only calls that close nothing are those that end at
\* the send stage and those whose transport answered with neither a
\* readable response nor an error.
C5_ClosedOnce ==
    /\ closed <= 1
    /\ (pc \in {"send", "unwind", "read", "close", "panic"} => closed = 0)
    /\ (pc \in {"done", "panic"} /\ IsResponse(ret) =>
            /\ pc = "done"
            /\ reads >= 1
            /\ closed = 1)
    /\ (pc = "done" /\ closed = 0 => result.err # NoError /\ reads = 0)
    /\ (pc = "panic" => ~ResponseOrError(ret))

C5_Witness ==
    /\ pc = "done"
    /\ ret.resp # Nil
    /\ ret.err = NoError
    /\ ret.resp[1].failAt = 3
    /\ buf = SubSeq(HelloStr, 1, 3)
    /\ result.err # NoError
    /\ closed = 1

\* the result is the complete body with a nil error, or nil bytes with a
\* non-nil error
AllOrNothing ==
    \/ /\ result.err = NoError
       /\ ret.resp # Nil
       /\ ret.resp[1].failAt < 0
       /\ result.body = Some(ret.resp[1].data)
    \/ /\ result.err # NoError
       /\ result.body = Nil

\* C6: every Get call on a transport that answers with a response or an
\* error returns, and whatever Get returns is either the complete body with
\* a nil error or nil bytes with a non-nil error; bytes read before a read
\* error are not returned; status 200 with body "hello" yields hello and a
\* nil error.
C6_AllOrNothing ==
    /\ (pc \in {"done", "panic"} /\ (BaseInvoked => ResponseOrError(baseRet))
            => pc = "done")
    /\ (pc = "done" =>
            /\ AllOrNothing
            /\ (ret.resp # Nil /\ ret.resp[1].failAt >= 0 => result.body = Nil)
            /\ (ret = [resp |-> Some([status |-> 200, data |-> HelloStr,
                                      failAt |-> -1, nilBody |-> FALSE,
                                      bodyClosed |-> FALSE]),
                       err |-> NoError]
                    => result = [body |-> Some(HelloStr), err |-> NoError]))
    /\ (pc \in {"unwind", "read", "panic"} => result = NoResult)

C6_Witness ==
    /\ pc = "done"
    /\ ret.resp # Nil
    /\ ret.resp[1].data = HelloStr
    /\ ret.resp[1].failAt = 4
    /\ Len(buf) = 4
    /\ result = [body |-> Nil,
                 err |-> <<"failed to read response body", "unexpected EOF">>]

\* C7 as claimed: Get with an already-canceled context returns a non-nil
\* error and no body, whatever transport the client is composed with.
C7_CanceledAnyTransport ==
    (pc = "done" /\ ctx = "canceled") =>
        /\ result.err # NoError
        /\ result.body = Nil

\* C7 amended: Get hands the transport a request bound to its ctx; with a
\* transport that honours the request's context, Get with an
\* already-canceled context returns a non-nil error and no body without
\* reading any body.  Get itself never inspects the context.
C7_CanceledHonouringTransport ==
    /\ (BaseInvoked => baseSaw.ctx = ctx)
    /\ (pc \in {"done", "panic"} /\ ctx = "canceled" /\ base.honoursCtx =>
            /\ pc = "done"
            /\ result.err # NoError
            /\ result.body = Nil
            /\ reads = 0)

C7_Witness ==
    /\ pc = "done"
    /\ ctx = "canceled"
    /\ base.honoursCtx
    /\ ParseURLOK(url)
    /\ result = [body |-> Nil, err |-> <<"request failed", "context canceled">>]

\* the parts of a request that a middleware must leave alone
SameButAuthorization(a, b) ==
    /\ a.method = b.method
    /\ a.url = b.url
    /\ a.body = b.body
    /\ a.ctx = b.ctx
    /\ a.headerNil = b.headerNil
    /\ a.header["Accept"] = b.header["Accept"]

\* the middleware's Do has dealt with the request: it has handed it to the
\* inner transport, or has panicked
PastMiddleware == pc \in {"unwind", "panic"}

\* the request is one of the specification: it has headers, a mapping from
\* header name to value list
HasHeaders(r) == ~r.headerNil

\* C8 as claimed: a request passed through BasicAuthMiddleware reaches the
\* inner transport carrying Authorization = "Basic " +
\* base64(username:password), decoding it recovers exactly (username,
\* password), and nothing else has changed.
C8_BasicAuthRoundTrip ==
    (PastMiddleware /\ MwUnderTest.kind = "BasicAuth" /\ HasHeaders(built)) =>
        LET u == MwUnderTest.username
            p == MwUnderTest.password
            h == baseSaw.header["Authorization"]
        IN  /\ pc = "unwind"
            /\ h = << BasicPrefix \o EncodeToString(u \o <<58>> \o p) >>
            /\ ParseBasicAuth(h[1]) = [ok |-> TRUE, username |-> u, password |-> p]
            /\ SameButAuthorization(baseSaw, built)

\* C8 amended: the same, with the pair recovered for every username that
\* contains no colon; with a colon in the username the decoding splits at
\* the first colon and yields another pair.
C8_BasicAuthRoundTripNoColon ==
    /\ (PastMiddleware /\ MwUnderTest.kind = "BasicAuth" /\ HasHeaders(built)) =>
        LET u == MwUnderTest.username
            p == MwUnderTest.password
            h == baseSaw.header["Authorization"]
            d == ParseBasicAuth(h[1])
        IN  /\ pc = "unwind"
            /\ h = << BasicPrefix \o EncodeToString(u \o <<58>> \o p) >>
            /\ (u = <<97>> /\ p = <<97>> => h[1] = BasicPrefix \o <<89, 84, 112, 104>>)
            /\ d.ok
            /\ (~HasColon(u) => d = [ok |-> TRUE, username |-> u, password |-> p])
            /\ (HasColon(u) => d.username # u)
            /\ SameButAuthorization(baseSaw, built)
    /\ (pc = "unwind" /\ MwUnderTest.kind = "BasicAuth" => HasHeaders(built))

C8_Witness ==
    /\ pc = "unwind"
    /\ MwUnderTest.kind = "BasicAuth"
    /\ MwUnderTest.username = <<126, 97>>
    /\ MwUnderTest.password = <<58, 126>>
    /\ Len(built.header["Authorization"]) = 2
    /\ built.body = Some(HiStr)
    /\ ParseBasicAuth(baseSaw.header["Authorization"][1])
         = [ok |-> TRUE, username |-> <<126, 97>>, password |-> <<58, 126>>]

\* C9: a request passed through APIKeyAuthMiddleware reaches the inner
\* transport with exactly one Authorization value, "Bearer " followed by
\* the key and nothing more, whatever Authorization values it carried
\* before; only a request without headers never reaches it.
C9_BearerReplaces ==
    /\ (PastMiddleware /\ MwUnderTest.kind = "APIKeyAuth" /\ HasHeaders(built)) =>
        LET k == MwUnderTest.apiKey
            h == baseSaw.header["Authorization"]
        IN  /\ pc = "unwind"
            /\ h = << <<66, 101, 97, 114, 101, 114, 32>> \o k >>
            /\ Len(h) = 1
            /\ Len(h[1]) = 7 + Len(k)
            /\ SubSeq(h[1], 1, 7) = <<66, 101, 97, 114, 101, 114, 32>>
            /\ SubSeq(h[1], 8, Len(h[1])) = k
    /\ (pc = "unwind" /\ MwUnderTest.kind = "APIKeyAuth" => HasHeaders(built))

C9_Witness ==
    /\ pc = "unwind"
    /\ MwUnderTest.kind = "APIKeyAuth"
    /\ MwUnderTest.apiKey = <<126, 97>>
    /\ Len(built.header["Authorization"]) = 2
    /\ baseSaw.header["Authorization"]
         = << <<66, 101, 97, 114, 101, 114, 32, 126, 97>> >>

\* how often layer x occurs in the run order
Count(seq, x) == Cardinality({i \in 1..Len(seq) : seq[i] = x})

\* the stage Get reports
Stage == IF result.err = NoError THEN "ok" ELSE Head(result.err)

\* the call's request cannot be built
BuildFails == ctx = "nil" \/ ~ParseURLOK(url)

\* every middleware and the base transport have run exactly once
EachRanOnce == \A x \in 0..Len(middlewares) : Count(order, x) = 1

\* Get reports exactly one of build failure, send failure, read failure or
\* success, and it is the one that happened
ReportsOneStage ==
    /\ result # NoResult
    /\ Stage \in {"ok", "failed to create request", "request failed",
                  "failed to read response body"}
    /\ (Stage = "ok") = (result.body # Nil)
    /\ (Stage = "failed to create request") = BuildFails
    /\ (BuildFails => order = <<>> /\ reads = 0 /\ closed = 0)
    /\ (~BuildFails =>
            /\ EachRanOnce
            /\ (Stage = "request failed") = (baseRet.err # NoError)
            /\ (Stage = "failed to read response body")
                 = (/\ baseRet.err = NoError
                    /\ baseRet.resp # Nil
                    /\ baseRet.resp[1].failAt >= 0))

\* C10: Get is one linear flow without retry: in any call the base
\* transport is invoked at most once and no middleware runs twice; a call
\* whose request cannot be built invokes nothing and reports "failed to
\* create request"; in every other call each middleware delegates to its
\* inner transport exactly once; every call on a transport that answers
\* with a response or an error returns, and every call that returns reports
\* exactly one of the three failure stages or success, the one that
\* happened.
C10_LinearNoRetry ==
    /\ \A x \in 0..Len(middlewares) : Count(order, x) <= 1
    /\ (pc = "done" => ReportsOneStage)
    /\ (pc = "panic" => ~BuildFails /\ EachRanOnce /\ ~ResponseOrError(baseRet))

C10_Witness ==
    /\ pc = "done"
    /\ url = ":bad"
    /\ ctx = "background"
    /\ Len(middlewares) = 2
    /\ order = <<>>
    /\ result = [body |-> Nil, err |-> <<"failed to create request", "parse", ":bad">>]

====
